---- MODULE Spec2Model ----
(***************************************************************************)
(* tagrep (src/main.go): a concurrent, recursive directory scanner.  main  *)
(* starts one search goroutine per root path; search lists a directory and *)
(* starts one goroutine per entry; an entry goroutine counts the entry,    *)
(* filters it, descends into it (a directory, with -r) or hands it to      *)
(* match.  total and found are atomic counters, wg is the sync.WaitGroup   *)
(* main waits on before it prints the summary line.                        *)
(*                                                                         *)
(* Strings are sequences of one-character strings, so that filepath.Ext    *)
(* and strings.EqualFold are computed and not assumed.  A path is the      *)
(* sequence of its components.                                             *)
(***************************************************************************)
EXTENDS Integers, Sequences, FiniteSets, TLC

VARIABLES
    fs,             \* the disk (immutable during a run): the directory holding the roots
    dirs,           \* pflag.Args(): the root paths; each names a node of fs (at),
                    \* as an absolute path or as a relative one (abs)
    flagArtist, flagTitle, flagYear,
    flagAbs, flagRecursive, flagIgnoreCase, flagVerbose,
    flagExts,
    inExts,         \* map[string]bool as the set of its keys
    ParseFrames,    \* opts.ParseFrames
    wd,             \* working directory, set when flagAbs
    total, found,   \* int64 counters, atomic.AddInt64
    wg,             \* the WaitGroup's counter
    mainPc,         \* where main is
    dirIdx,         \* main's loop index over dirs
    tasks,          \* goroutine id -> its local state
    tagPool,        \* idle *id3v2.Tag objects of the sync.Pool
    tagsMade,       \* tags made by the pool's New so far
    stdout,         \* lines printed with fmt.Println / fmt.Printf
    stderr,         \* lines printed with log.* and pflag.Usage
    exitCode        \* "running", or how the process ended: "exit0", "exit1"

vars == <<fs, dirs, flagArtist, flagTitle, flagYear, flagAbs, flagRecursive,
          flagIgnoreCase, flagVerbose, flagExts, inExts, ParseFrames, wd,
          total, found, wg, mainPc, dirIdx, tasks, tagPool, tagsMade,
          stdout, stderr, exitCode>>

config == <<fs, dirs, flagArtist, flagTitle, flagYear, flagAbs, flagRecursive,
            flagIgnoreCase, flagVerbose, flagExts>>

-----------------------------------------------------------------------------
(* Bounds of the model *)

\* root paths on the command line
MaxRoots == 2
\* files and directories on disk, the roots included
MaxNodes == 3

(* Program constants *)

MinTagSize == 20

-----------------------------------------------------------------------------
(* Strings *)

Upper == <<"A", "B", "T", "Y">>
Lower == <<"a", "b", "t", "y">>

\* unicode.SimpleFold restricted to the letters above: the lower-case form
ToLower(c) ==
    IF \E i \in 1..Len(Upper) : Upper[i] = c
    THEN Lower[CHOOSE i \in 1..Len(Upper) : Upper[i] = c]
    ELSE c

EqualFold(a, b) ==
    /\ Len(a) = Len(b)
    /\ \A i \in 1..Len(a) : ToLower(a[i]) = ToLower(b[i])

\* (variant: the flag is not looked at)
areStringsEqualExact(a, b, ignoreCase) == a = b

areStringsEqual(a, b, ignoreCase) ==
    IF ignoreCase THEN EqualFold(a, b) ELSE a = b

\* filepath.Ext: the suffix beginning at the final dot of the name, "" if none
Ext(name) ==
    LET dots == {i \in 1..Len(name) : name[i] = "."}
    IN  IF dots = {} THEN <<>>
        ELSE LET d == CHOOSE i \in dots : \A j \in dots : j <= i
             IN  SubSeq(name, d, Len(name))

Mp3 == <<".", "m", "p", "3">>
Txt == <<".", "t", "x", "t">>
Star == <<"*">>

-----------------------------------------------------------------------------
(* The disk: a tree of nodes.  A node carries what os.FileInfo reports of  *)
(* it (size, directory or not, the extension of its name), what os.Open    *)
(* and Readdir do on it, and what id3v2 finds in it.                       *)

NoTag == [artist |-> <<>>, title |-> <<>>, year |-> <<>>]

FileNode(size, ext, openOk, resetOk, hasFrames, tag) ==
    [isDir |-> FALSE, size |-> size, ext |-> ext, listOk |-> FALSE,
     entries |-> <<>>, openOk |-> openOk, resetOk |-> resetOk,
     hasFrames |-> hasFrames, tag |-> tag]

DirNode(size, listOk, entries) ==
    [isDir |-> TRUE, size |-> size, ext |-> <<>>, listOk |-> listOk,
     entries |-> entries, openOk |-> TRUE, resetOk |-> FALSE,
     hasFrames |-> FALSE, tag |-> NoTag]

TagA == [artist |-> <<"A">>, title |-> <<"T">>, year |-> <<"Y">>]
TagB == [artist |-> <<"B">>, title |-> <<"T">>, year |-> <<"Y">>]

Hit      == FileNode(40, Mp3, TRUE, TRUE, TRUE, TagA)
Miss     == FileNode(25, Mp3, TRUE, TRUE, TRUE, TagB)
Small    == FileNode(10, Mp3, TRUE, TRUE, TRUE, TagA)
Other    == FileNode(40, Txt, TRUE, TRUE, TRUE, TagA)
\* a file tagged A that cannot be opened; a file whose tag breaks off after
\* its artist frame; a file whose tag holds no frame
NoOpen   == FileNode(40, Mp3, FALSE, TRUE, TRUE, TagA)
BadTag   == FileNode(40, Mp3, TRUE, FALSE, TRUE, TagA)
NoFrames == FileNode(40, Mp3, TRUE, TRUE, FALSE, NoTag)

\* the kinds of file of the disks explored, in the order listings keep
Files == <<Hit, Miss, Small, Other, NoOpen, BadTag, NoFrames>>

\* what Size() reports of a directory depends on the file system
DirSizes == {10, 4096}

Rank(n) ==
    IF n.isDir THEN Len(Files) + 1
    ELSE CHOOSE i \in 1..Len(Files) : Files[i] = n

\* the number of nodes of the listing l, nested ones included
RECURSIVE Weight(_)
Weight(l) ==
    IF l = <<>> THEN 0
    ELSE 1 + Weight(Head(l).entries) + Weight(Tail(l))

\* The listings of at most b nodes, nested ones included.  Entry names are
\* arbitrary, so a listing ordered by Rank stands for its permutations.
\* level 0 lists the root paths, which search does not filter by size.
RECURSIVE Listings(_, _, _)
Listings(b, level, width) ==
    IF b = 0 \/ width = 0 THEN {<<>>}
    ELSE LET files == IF level = 0 THEN {Hit}
                      ELSE {Files[i] : i \in 1..Len(Files)}
             sizes == IF level = 0 THEN {4096} ELSE DirSizes
             nodes == files
                        \cup {DirNode(4096, FALSE, <<>>)}
                        \cup {DirNode(s, TRUE, l) :
                                s \in sizes, l \in Listings(b - 1, level + 1, b)}
         IN  {<<>>} \cup
             UNION {{<<x>> \o rest :
                        rest \in {r \in Listings(b - 1 - Weight(x.entries), level, width - 1) :
                                    r = <<>> \/ Rank(x) <= Rank(Head(r))}} :
                    x \in nodes}

\* the node an index path leads to, from node n
RECURSIVE Lookup(_, _)
Lookup(n, p) ==
    IF p = <<>> THEN n ELSE Lookup(n.entries[Head(p)], Tail(p))

\* names of the entries of a directory: one letter and the extension
Stems == <<"k", "l", "m", "n", "o", "q">>
NameOf(node, k) == <<Stems[k]>> \o node.ext

\* os.FileInfo of entry k of directory node d
FileInfo(d, k) ==
    LET e == d.entries[k]
    IN  [Name |-> NameOf(e, k), Size |-> e.size, IsDir |-> e.isDir]

\* f.Readdir(-1): the FileInfos of the directory's entries, in disk order
Readdir(d) == [k \in 1..Len(d.entries) |-> FileInfo(d, k)]

\* filepath.Join(dir, name) for a clean dir and a plain name
Join(dir, name) == Append(dir, name)

Slash == <<"/">>
WorkDir == <<Slash, <<"w">>>>

\* filepath.IsAbs
IsAbs(path) == path # <<>> /\ Head(path) = Slash

-----------------------------------------------------------------------------
(* Goroutines.  Goroutine <<i, <<>>>> is main's `go search(dirs[i], &wg)`; *)
(* goroutine <<i, p>>, p an index path below root i, is the closure search *)
(* starts for the entry p leads to.  A nested search runs inside the entry *)
(* goroutine that descends.                                                *)

Root(g)  == g[1]
Below(g) == g[2]

\* index path, from fs, of the node goroutine g works on: the directory a
\* search was called with, the entry an entry goroutine was started with
IndexPath(g) == tasks[g].at
NodeOf(g) == Lookup(fs, IndexPath(g))

\* the names along index path p, from node n
RECURSIVE Names(_, _)
Names(n, p) ==
    IF p = <<>> THEN <<>>
    ELSE <<NameOf(n.entries[Head(p)], Head(p))>>
             \o Names(n.entries[Head(p)], Tail(p))

\* the path string goroutine g holds: dir for a search, path for an entry
PathOf(g) ==
    (IF dirs[Root(g)].abs THEN <<Slash>> ELSE <<>>) \o Names(fs, IndexPath(g))

\* the fi an entry goroutine was started with
FiOf(g) ==
    LET ip == IndexPath(g)
    IN  FileInfo(Lookup(fs, SubSeq(ip, 1, Len(ip) - 1)), ip[Len(ip)])

NewTask(pc, at) == [pc |-> pc, at |-> at, next |-> 1, tag |-> 0, out |-> "none"]

StdoutPath(path) == [kind |-> "path", path |-> path, total |-> 0, found |-> 0]
StdoutSummary(t, f) == [kind |-> "summary", path |-> <<>>, total |-> t, found |-> f]
StdoutNoPaths == [kind |-> "nopaths", path |-> <<>>, total |-> 0, found |-> 0]
LogLine(kind, path) == [kind |-> kind, path |-> path]

-----------------------------------------------------------------------------
(* The decisions of the code, one operator each *)

\* (variant: the missing paths are not looked for)
NoPathsIgnored(args) == FALSE

\* main: `if len(dirs) == 0 {...; os.Exit(1) }`
NoPaths(args) == Len(args) = 0

\* (variant: the empty frame list does not end the run)
NothingToParseIgnored(frames) == FALSE

\* initOptions: `if len(opts.ParseFrames) == 0 { os.Exit(0) }`
NothingToParse(frames) == Len(frames) = 0

\* initOptions: the frames to parse, one per criterion given
InitParseFrames ==
    (IF flagArtist # <<>> THEN <<"Artist">> ELSE <<>>)
        \o (IF flagTitle # <<>> THEN <<"Title">> ELSE <<>>)
        \o (IF flagYear # <<>> THEN <<"Year">> ELSE <<>>)

\* main: inExts is built unless the first extension is the wildcard
BuildInExts(exts) ==
    IF Len(exts) > 0 /\ exts[1] # Star
    THEN {exts[i] : i \in 1..Len(exts)}
    ELSE {}

\* (variant: the closure reads the loop variable, which the loop has moved
\* on to the last entry)
PassedCaptured(k, n) == n

\* search: the closure takes fileInfo as its parameter fi, so the goroutine
\* of turn k of the loop over n entries works on entry k
Passed(k, n) == k

\* (variants: the test inverted; the entry counted after the size check)
CountEntryInverted(fi) == IF fi.IsDir THEN 1 ELSE 0
CountEntryLarge(fi) == IF ~fi.IsDir /\ fi.Size >= MinTagSize THEN 1 ELSE 0

\* search: `if !fi.IsDir() { atomic.AddInt64(&total, 1) }`
CountEntry(fi) == IF ~fi.IsDir THEN 1 ELSE 0

\* (variant: 2 for 20)
TooSmallTypo(fi) == fi.Size < 2

\* search: `if fi.Size() < 20 { return }`
TooSmall(fi) == fi.Size < MinTagSize

\* search: `if len(inExts) > 0 && !inExts[filepath.Ext(fi.Name())] { return }`
ExtRejected(fi) == Cardinality(inExts) > 0 /\ Ext(fi.Name) \notin inExts

\* (variant: a directory is entered whatever the recursive flag)
DispatchDescends(fi) ==
    IF TooSmall(fi) THEN [pc |-> "ret", out |-> "small"]
    ELSE IF fi.IsDir THEN [pc |-> "descend", out |-> "dir"]
    ELSE IF ExtRejected(fi) THEN [pc |-> "ret", out |-> "ext"]
    ELSE [pc |-> "open", out |-> "none"]

\* (variant: the directory check comes before the size check)
DispatchDirFirst(fi) ==
    IF fi.IsDir
    THEN IF flagRecursive THEN [pc |-> "descend", out |-> "dir"]
                          ELSE [pc |-> "ret", out |-> "dir"]
    ELSE IF TooSmall(fi) THEN [pc |-> "ret", out |-> "small"]
    ELSE IF ExtRejected(fi) THEN [pc |-> "ret", out |-> "ext"]
    ELSE [pc |-> "open", out |-> "none"]

\* search: what the entry goroutine does after counting the entry
Dispatch(fi) ==
    IF TooSmall(fi) THEN [pc |-> "ret", out |-> "small"]
    ELSE IF fi.IsDir
         THEN IF flagRecursive THEN [pc |-> "descend", out |-> "dir"]
                               ELSE [pc |-> "ret", out |-> "dir"]
    ELSE IF ExtRejected(fi) THEN [pc |-> "ret", out |-> "ext"]
    ELSE [pc |-> "open", out |-> "none"]

\* (variant: the error of readDir is dropped)
ReadDirErrIgnored(node) == TRUE

\* readDir: os.Open and Readdir succeed on a listable directory only
ReadDirOk(node) == node.isDir /\ node.listOk

\* (variant: one entry short)
AddForEntriesShort(fileInfos) == Len(fileInfos) - 1

\* search: `wg.Add(len(fileInfos))`
AddForEntries(fileInfos) == Len(fileInfos)

\* (variant: the nested search is not registered)
AddForNestedForgotten(counter) == counter

\* search: `wg.Add(1)` before the nested `search(path, wg)`
AddForNested(counter) == counter + 1

\* (variants: Done is not called; Done is called again next to the deferred one)
DoneForgotten(counter) == counter
DoneTwice(counter) == counter - 2

\* `defer wg.Done()`
Done(counter) == counter - 1

\* (variant: the error of os.Open is dropped)
OpenErrIgnored(node) == FALSE

\* match: `file, err := os.Open(path); if err != nil {...; return }`
OpenFails(node) == ~node.openOk

\* (variant: one field that matches is enough)
FieldsMatchAny(tag) ==
    \/ flagArtist # <<>> /\ areStringsEqual(tag.artist, flagArtist, flagIgnoreCase)
    \/ flagTitle # <<>> /\ areStringsEqual(tag.title, flagTitle, flagIgnoreCase)
    \/ flagYear # <<>> /\ areStringsEqual(tag.year, flagYear, flagIgnoreCase)

\* match: the three comparisons, each skipped when its flag is empty
FieldsMatch(tag) ==
    /\ ~(flagArtist # <<>> /\ ~areStringsEqual(tag.artist, flagArtist, flagIgnoreCase))
    /\ ~(flagTitle # <<>> /\ ~areStringsEqual(tag.title, flagTitle, flagIgnoreCase))
    /\ ~(flagYear # <<>> /\ ~areStringsEqual(tag.year, flagYear, flagIgnoreCase))

\* match: what Reset, HasFrames and the comparisons make of an opened file
Examine(node) ==
    IF ~node.resetOk THEN "resetErr"
    ELSE IF ~node.hasFrames THEN "noFrames"
    ELSE IF ~FieldsMatch(node.tag) THEN "mismatch"
    ELSE "match"

\* (variant: tagPool.Put is deferred after the check of Reset's error)
AfterExamineLeak(r) ==
    IF r = "match" THEN "found" ELSE IF r = "resetErr" THEN "ret" ELSE "put"

\* match: where match goes on after Reset, HasFrames and the comparisons:
\* to the increment of found, or to its return and the deferred Put
AfterExamine(r) == IF r = "match" THEN "found" ELSE "put"

\* (variant: the increment is lost)
IncFoundLost(counter) == counter

\* match: `atomic.AddInt64(&found, 1)`
IncFound(counter) == counter + 1

\* match: the line printed for a matched path
Printed(path) ==
    IF flagAbs /\ ~IsAbs(path) THEN wd \o path ELSE path

\* tagPool.Get(): an idle tag, or a new one; Get may ignore the idle ones
PoolGet ==
    {tagsMade + 1} \cup
        (IF tagPool = {} THEN {}
         ELSE {CHOOSE t \in tagPool : \A u \in tagPool : t <= u})

-----------------------------------------------------------------------------
(* Initial states: the command line and the disk *)

\* the root paths name the entries of fs, one each
Args(abs) == [i \in 1..Len(fs.entries) |-> [abs |-> abs, at |-> <<i>>]]

Disk(roots) == DirNode(4096, TRUE, roots)

\* a node of listing l, nested ones included, is a file named .txt
RECURSIVE HasOther(_)
HasOther(l) ==
    /\ l # <<>>
    /\ (Head(l) = Other \/ HasOther(Head(l).entries) \/ HasOther(Tail(l)))

\* a root of listing l holds a sub-directory
Nested(l) ==
    \E i \in 1..Len(l) : \E k \in 1..Len(l[i].entries) : l[i].entries[k].isDir

\* every disk of at most MaxNodes nodes, scanned for artist A or for nothing;
\* --recursive and --exts make a difference on a disk that holds a
\* sub-directory, a .txt file
ScanInit ==
    /\ fs \in {Disk(l) : l \in Listings(MaxNodes, 0, MaxRoots)}
    /\ dirs = Args(FALSE)
    /\ flagArtist \in {<<>>, <<"A">>}
    /\ flagTitle = <<>>
    /\ flagYear = <<>>
    /\ flagAbs = FALSE
    /\ flagRecursive \in (IF Nested(fs.entries) THEN BOOLEAN ELSE {FALSE})
    /\ flagIgnoreCase = FALSE
    /\ flagVerbose = FALSE
    /\ flagExts \in (IF HasOther(fs.entries) THEN {<<Mp3>>, <<Star>>} ELSE {<<Mp3>>})

\* one directory of three files of 10, 25 and 40 bytes tagged A, B and A,
\* scanned without recursion for artist A
ScenarioDisk == Disk(<<DirNode(4096, TRUE, <<Hit, Miss, Small>>)>>)

ScenarioInit ==
    /\ fs = ScenarioDisk
    /\ dirs = Args(FALSE)
    /\ flagArtist = <<"A">>
    /\ flagTitle = <<>>
    /\ flagYear = <<>>
    /\ flagAbs = FALSE
    /\ flagRecursive = FALSE
    /\ flagIgnoreCase = FALSE
    /\ flagVerbose = FALSE
    /\ flagExts = <<Mp3>>

\* one directory of one file, under every combination of the flags
Tagged ==
    {FileNode(40, Mp3, TRUE, TRUE, TRUE, [artist |-> a, title |-> t, year |-> y]) :
        a \in {<<"A">>, <<"a">>}, t \in {<<"T">>, <<"t">>}, y \in {<<"Y">>, <<"B">>}}

MatchInit ==
    /\ fs \in {Disk(<<DirNode(4096, TRUE, <<f>>)>>) :
                f \in Tagged \cup {Small, Other, NoOpen, BadTag, NoFrames}}
    /\ \E abs \in BOOLEAN : dirs = Args(abs)
    /\ flagArtist \in {<<>>, <<"A">>}
    /\ flagTitle \in {<<>>, <<"T">>}
    /\ flagYear \in {<<>>, <<"Y">>}
    /\ flagAbs \in BOOLEAN
    /\ flagRecursive = FALSE
    /\ flagIgnoreCase \in BOOLEAN
    /\ flagVerbose \in BOOLEAN
    /\ flagExts = <<Mp3>>

Init ==
    /\ ScanInit \/ ScenarioInit \/ MatchInit
    /\ inExts = {}
    /\ ParseFrames = <<>>
    /\ wd = <<>>
    /\ total = 0
    /\ found = 0
    /\ wg = 0
    /\ mainPc = "args"
    /\ dirIdx = 1
    /\ tasks = <<>>
    /\ tagPool = {}
    /\ tagsMade = 0
    /\ stdout = <<>>
    /\ stderr = <<>>
    /\ exitCode = "running"

-----------------------------------------------------------------------------
(* main *)

Exit(code) == exitCode' = code

\* main: pflag.Args(); no path: message, usage, os.Exit(1)
MainArgs ==
    /\ exitCode = "running" /\ mainPc = "args"
    /\ IF NoPaths(dirs)
       THEN /\ stdout' = Append(stdout, StdoutNoPaths)
            /\ stderr' = Append(stderr, LogLine("usage", <<>>))
            /\ Exit("exit1")
            /\ UNCHANGED mainPc
       ELSE /\ mainPc' = IF flagAbs THEN "getwd" ELSE "initOptions"
            /\ UNCHANGED <<stdout, stderr, exitCode>>
    /\ UNCHANGED <<config, inExts, ParseFrames, wd, total, found, wg, dirIdx,
                   tasks, tagPool, tagsMade>>

\* main: os.Getwd(), log.Fatalln on error
MainGetwd ==
    /\ exitCode = "running" /\ mainPc = "getwd"
    /\ \E ok \in BOOLEAN :
         IF ok
         THEN /\ wd' = WorkDir
              /\ mainPc' = "initOptions"
              /\ UNCHANGED <<stderr, exitCode>>
         ELSE /\ stderr' = Append(stderr, LogLine("getwdFatal", <<>>))
              /\ Exit("exit1")
              /\ UNCHANGED <<wd, mainPc>>
    /\ UNCHANGED <<config, inExts, ParseFrames, total, found, wg, dirIdx,
                   tasks, tagPool, tagsMade, stdout>>

\* initOptions, then the building of inExts
MainInitOptions ==
    /\ exitCode = "running" /\ mainPc = "initOptions"
    /\ ParseFrames' = InitParseFrames
    /\ IF NothingToParse(InitParseFrames)
       THEN /\ Exit("exit0")
            /\ UNCHANGED <<inExts, mainPc>>
       ELSE /\ inExts' = BuildInExts(flagExts)
            /\ mainPc' = "add"
            /\ UNCHANGED exitCode
    /\ UNCHANGED <<config, wd, total, found, wg, dirIdx, tasks, tagPool,
                   tagsMade, stdout, stderr>>

\* main's loop: wg.Add(1)
MainAdd ==
    /\ exitCode = "running" /\ mainPc = "add"
    /\ wg' = wg + 1
    /\ mainPc' = "go"
    /\ UNCHANGED <<config, inExts, ParseFrames, wd, total, found, dirIdx,
                   tasks, tagPool, tagsMade, stdout, stderr, exitCode>>

\* main's loop: go search(dir, &wg)
MainGo ==
    /\ exitCode = "running" /\ mainPc = "go"
    /\ tasks' = tasks @@ (<<dirIdx, <<>>>> :> NewTask("readDir", dirs[dirIdx].at))
    /\ dirIdx' = dirIdx + 1
    /\ mainPc' = IF dirIdx = Len(dirs) THEN "wait" ELSE "add"
    /\ UNCHANGED <<config, inExts, ParseFrames, wd, total, found, wg,
                   tagPool, tagsMade, stdout, stderr, exitCode>>

\* wg.Wait() returns when the counter is zero
MainWait ==
    /\ exitCode = "running" /\ mainPc = "wait"
    /\ wg = 0
    /\ mainPc' = "print"
    /\ UNCHANGED <<config, inExts, ParseFrames, wd, total, found, wg, dirIdx,
                   tasks, tagPool, tagsMade, stdout, stderr, exitCode>>

\* the summary line; main returns and the process exits with code 0
MainPrint ==
    /\ exitCode = "running" /\ mainPc = "print"
    /\ stdout' = Append(stdout, StdoutSummary(total, found))
    /\ mainPc' = "done"
    /\ Exit("exit0")
    /\ UNCHANGED <<config, inExts, ParseFrames, wd, total, found, wg, dirIdx,
                   tasks, tagPool, tagsMade, stderr>>

-----------------------------------------------------------------------------
(* search *)

At(g, pc) == exitCode = "running" /\ g \in DOMAIN tasks /\ tasks[g].pc = pc

\* readDir(dir); log.Fatal(err) ends the process
SearchReadDir(g) ==
    /\ At(g, "readDir")
    /\ IF ReadDirOk(NodeOf(g))
       THEN /\ tasks' = [tasks EXCEPT ![g].pc = "add"]
            /\ UNCHANGED <<stderr, exitCode>>
       ELSE /\ stderr' = Append(stderr, LogLine("readDirFatal", PathOf(g)))
            /\ Exit("exit1")
            /\ UNCHANGED tasks
    /\ UNCHANGED <<config, inExts, ParseFrames, wd, total, found, wg, mainPc,
                   dirIdx, tagPool, tagsMade, stdout>>

\* wg.Add(len(fileInfos))
SearchAdd(g) ==
    /\ At(g, "add")
    /\ LET fileInfos == Readdir(NodeOf(g))
       IN  /\ wg' = wg + AddForEntries(fileInfos)
           /\ tasks' = [tasks EXCEPT ![g].pc =
                            IF Len(fileInfos) = 0 THEN "sdone" ELSE "spawn",
                                     ![g].next = 1]
    /\ UNCHANGED <<config, inExts, ParseFrames, wd, total, found, mainPc,
                   dirIdx, tagPool, tagsMade, stdout, stderr, exitCode>>

\* one turn of the loop: go func(fi os.FileInfo) {...}(fileInfo)
SearchSpawn(g) ==
    /\ At(g, "spawn")
    /\ LET fileInfos == Readdir(NodeOf(g))
           k == tasks[g].next
           child == <<Root(g), Append(Below(g), k)>>
       IN  tasks' = [tasks EXCEPT ![g].next = k + 1,
                                  ![g].pc = IF k = Len(fileInfos)
                                            THEN "sdone" ELSE "spawn"]
                        @@ (child :> NewTask("start",
                                Append(IndexPath(g), Passed(k, Len(fileInfos)))))
    /\ UNCHANGED <<config, inExts, ParseFrames, wd, total, found, wg, mainPc,
                   dirIdx, tagPool, tagsMade, stdout, stderr, exitCode>>

\* wg.Done() of goroutine g, which goes on at pc; a counter that would fall
\* below zero is a panic, which ends the process with code 2
WgDone(g, pc) ==
    IF Done(wg) < 0
    THEN /\ stderr' = Append(stderr, LogLine("panic", <<>>))
         /\ Exit("exit2")
         /\ UNCHANGED <<wg, tasks>>
    ELSE /\ wg' = Done(wg)
         /\ tasks' = [tasks EXCEPT ![g].pc = pc]
         /\ UNCHANGED <<stderr, exitCode>>

\* search returns: its deferred wg.Done()
SearchDone(g) ==
    /\ At(g, "sdone")
    /\ WgDone(g, IF Below(g) = <<>> THEN "end" ELSE "ret")
    /\ UNCHANGED <<config, inExts, ParseFrames, wd, total, found, mainPc,
                   dirIdx, tagPool, tagsMade, stdout>>

-----------------------------------------------------------------------------
(* the entry goroutine *)

\* count the entry, then the size, directory and extension checks
EntryStart(g) ==
    /\ At(g, "start")
    /\ LET fi == FiOf(g)
           d == Dispatch(fi)
       IN  /\ total' = total + CountEntry(fi)
           /\ tasks' = [tasks EXCEPT ![g].pc = d.pc, ![g].out = d.out]
    /\ UNCHANGED <<config, inExts, ParseFrames, wd, found, wg, mainPc,
                   dirIdx, tagPool, tagsMade, stdout, stderr, exitCode>>

\* wg.Add(1) before the nested search(path, wg)
EntryDescend(g) ==
    /\ At(g, "descend")
    /\ wg' = AddForNested(wg)
    /\ tasks' = [tasks EXCEPT ![g].pc = "readDir"]
    /\ UNCHANGED <<config, inExts, ParseFrames, wd, total, found, mainPc,
                   dirIdx, tagPool, tagsMade, stdout, stderr, exitCode>>

\* the goroutine returns: its deferred wg.Done()
EntryDone(g) ==
    /\ At(g, "ret")
    /\ WgDone(g, "end")
    /\ UNCHANGED <<config, inExts, ParseFrames, wd, total, found, mainPc,
                   dirIdx, tagPool, tagsMade, stdout>>

-----------------------------------------------------------------------------
(* match *)

\* (variant: the error is logged whatever the flag)
VerboseLogAlways(path) == Append(stderr, LogLine("error", path))

\* match: `if flagVerbose { log.Println("ERROR: ", path, ":", err) }`
VerboseLog(path) ==
    IF flagVerbose THEN Append(stderr, LogLine("error", path)) ELSE stderr

\* os.Open(path), then tagPool.Get()
MatchOpen(g) ==
    /\ At(g, "open")
    /\ IF OpenFails(NodeOf(g))
       THEN /\ stderr' = VerboseLog(PathOf(g))
            /\ tasks' = [tasks EXCEPT ![g].pc = "ret", ![g].out = "openErr"]
            /\ UNCHANGED <<tagPool, tagsMade>>
       ELSE /\ \E t \in PoolGet :
                 /\ tasks' = [tasks EXCEPT ![g].pc = "reset", ![g].tag = t]
                 /\ tagPool' = tagPool \ {t}
                 /\ tagsMade' = IF t > tagsMade THEN t ELSE tagsMade
            /\ UNCHANGED stderr
    /\ UNCHANGED <<config, inExts, ParseFrames, wd, total, found, wg, mainPc,
                   dirIdx, stdout, exitCode>>

\* tag.Reset(file, opts), tag.HasFrames() and the comparisons
MatchReset(g) ==
    /\ At(g, "reset")
    /\ LET r == Examine(NodeOf(g))
       IN  /\ tasks' = [tasks EXCEPT ![g].out = r,
                           ![g].pc = AfterExamine(r)]
           /\ stderr' = IF r = "resetErr" THEN VerboseLog(PathOf(g)) ELSE stderr
    /\ UNCHANGED <<config, inExts, ParseFrames, wd, total, found, wg, mainPc,
                   dirIdx, tagPool, tagsMade, stdout, exitCode>>

\* atomic.AddInt64(&found, 1)
MatchFound(g) ==
    /\ At(g, "found")
    /\ found' = IncFound(found)
    /\ tasks' = [tasks EXCEPT ![g].pc = "print"]
    /\ UNCHANGED <<config, inExts, ParseFrames, wd, total, wg, mainPc,
                   dirIdx, tagPool, tagsMade, stdout, stderr, exitCode>>

\* fmt.Println of the path
MatchPrint(g) ==
    /\ At(g, "print")
    /\ stdout' = Append(stdout, StdoutPath(Printed(PathOf(g))))
    /\ tasks' = [tasks EXCEPT ![g].pc = "put"]
    /\ UNCHANGED <<config, inExts, ParseFrames, wd, total, found, wg, mainPc,
                   dirIdx, tagPool, tagsMade, stderr, exitCode>>

\* match returns: the deferred tagPool.Put(tag) and file.Close()
MatchPut(g) ==
    /\ At(g, "put")
    /\ tagPool' = tagPool \cup {tasks[g].tag}
    /\ tasks' = [tasks EXCEPT ![g].pc = "ret", ![g].tag = 0]
    /\ UNCHANGED <<config, inExts, ParseFrames, wd, total, found, wg, mainPc,
                   dirIdx, tagsMade, stdout, stderr, exitCode>>

-----------------------------------------------------------------------------

Next ==
    \/ MainArgs
    \/ MainGetwd
    \/ MainInitOptions
    \/ MainAdd
    \/ MainGo
    \/ MainWait
    \/ MainPrint
    \/ \E g \in DOMAIN tasks : SearchReadDir(g)
    \/ \E g \in DOMAIN tasks : SearchAdd(g)
    \/ \E g \in DOMAIN tasks : SearchSpawn(g)
    \/ \E g \in DOMAIN tasks : SearchDone(g)
    \/ \E g \in DOMAIN tasks : EntryStart(g)
    \/ \E g \in DOMAIN tasks : EntryDescend(g)
    \/ \E g \in DOMAIN tasks : EntryDone(g)
    \/ \E g \in DOMAIN tasks : MatchOpen(g)
    \/ \E g \in DOMAIN tasks : MatchReset(g)
    \/ \E g \in DOMAIN tasks : MatchFound(g)
    \/ \E g \in DOMAIN tasks : MatchPrint(g)
    \/ \E g \in DOMAIN tasks : MatchPut(g)

Spec == Init /\ [][Next]_vars

\* The Go scheduler runs a goroutine that can run, and main when wg.Wait can
\* return: the process never idles while one of its steps is enabled.
FairSpec == Spec /\ WF_vars(Next)

-----------------------------------------------------------------------------
(* Vocabulary of the properties *)

Entries == {g \in DOMAIN tasks : Below(g) # <<>>}
Searches == {g \in DOMAIN tasks :
                Below(g) = <<>> \/ tasks[g].pc \in {"add", "spawn", "sdone"}}

PastBarrier == mainPc \in {"print", "done"}

PathLines == {stdout[i].path : i \in {j \in 1..Len(stdout) : stdout[j].kind = "path"}}
NPathLines == Cardinality({j \in 1..Len(stdout) : stdout[j].kind = "path"})
NSummaries == Cardinality({j \in 1..Len(stdout) : stdout[j].kind = "summary"})

Criterion == flagArtist # <<>> \/ flagTitle # <<>> \/ flagYear # <<>>

RootNode(i) == Lookup(fs, dirs[i].at)
RootDir(i) == (IF dirs[i].abs THEN <<Slash>> ELSE <<>>) \o Names(fs, dirs[i].at)

\* goroutine g has listed a directory whose entries it starts goroutines for
Descended(g) == Below(g) = <<>> \/ (tasks[g].out = "dir" /\ flagRecursive)

Failures == {"openErr", "resetErr", "noFrames"}

Completed ==
    /\ exitCode = "exit0" /\ mainPc = "done" /\ wg = 0
    /\ NSummaries = 1 /\ stdout[Len(stdout)].kind = "summary"

\* The run of the code by one goroutine, depth first: what search(dir) adds
\* to total and to found and the paths it prints, from entry k of node d on
RECURSIVE SeqTotal(_, _)
SeqTotal(d, k) ==
    IF k > Len(d.entries) THEN 0
    ELSE LET fi == FileInfo(d, k)
         IN  CountEntry(fi)
               + (IF Dispatch(fi).pc = "descend" THEN SeqTotal(d.entries[k], 1) ELSE 0)
               + SeqTotal(d, k + 1)

SeqMatches(d, k) ==
    LET e == d.entries[k]
    IN  Dispatch(FileInfo(d, k)).pc = "open" /\ ~OpenFails(e) /\ Examine(e) = "match"

RECURSIVE SeqFound(_, _)
SeqFound(d, k) ==
    IF k > Len(d.entries) THEN 0
    ELSE (IF SeqMatches(d, k) THEN 1 ELSE 0)
           + (IF Dispatch(FileInfo(d, k)).pc = "descend"
              THEN SeqFound(d.entries[k], 1) ELSE 0)
           + SeqFound(d, k + 1)

RECURSIVE SeqPaths(_, _, _)
SeqPaths(d, dir, k) ==
    IF k > Len(d.entries) THEN {}
    ELSE LET fi == FileInfo(d, k)
             path == Join(dir, fi.Name)
         IN  (IF SeqMatches(d, k) THEN {Printed(path)} ELSE {})
               \cup (IF Dispatch(fi).pc = "descend"
                     THEN SeqPaths(d.entries[k], path, 1) ELSE {})
               \cup SeqPaths(d, dir, k + 1)

\* the same over the root paths, from root i on
RECURSIVE RootsTotal(_)
RootsTotal(i) ==
    IF i > Len(dirs) THEN 0 ELSE SeqTotal(RootNode(i), 1) + RootsTotal(i + 1)

RECURSIVE RootsFound(_)
RootsFound(i) ==
    IF i > Len(dirs) THEN 0 ELSE SeqFound(RootNode(i), 1) + RootsFound(i + 1)

RECURSIVE RootsPaths(_)
RootsPaths(i) ==
    IF i > Len(dirs) THEN {}
    ELSE SeqPaths(RootNode(i), RootDir(i), 1) \cup RootsPaths(i + 1)

\* the node is a directory that can be listed
CanList(n) == n.isDir /\ n.listOk

\* every directory a run scans can be listed
RECURSIVE Listable(_)
Listable(d) ==
    /\ CanList(d)
    /\ \A k \in 1..Len(d.entries) :
         Dispatch(FileInfo(d, k)).pc = "descend" => Listable(d.entries[k])

AllListable == \A i \in 1..Len(dirs) : Listable(RootNode(i))

-----------------------------------------------------------------------------
(* C1.  Join barrier: wg.Wait returns only when every root search has been *)
(* started and every goroutine started so far has ended, each one that     *)
(* listed a directory having started a goroutine for every entry; after    *)
(* the barrier no step changes total, found, the reported paths or a       *)
(* goroutine.                                                              *)

Drained ==
    /\ \A i \in 1..Len(dirs) : <<i, <<>>>> \in DOMAIN tasks
    /\ \A g \in DOMAIN tasks :
         /\ tasks[g].pc = "end"
         /\ Descended(g) =>
              \A k \in 1..Len(NodeOf(g).entries) :
                  <<Root(g), Append(Below(g), k)>> \in DOMAIN tasks

JoinBarrier ==
    /\ [](PastBarrier => Drained)
    /\ [][PastBarrier => /\ total' = total
                         /\ found' = found
                         /\ PathLines' = PathLines
                         /\ tasks' = tasks]_vars

\* a run is past the barrier after a match two directories deep
JoinBarrierWitness ==
    /\ mainPc = "done"
    /\ \E g \in DOMAIN tasks : Len(Below(g)) = 2 /\ tasks[g].out = "match"

-----------------------------------------------------------------------------
(* C2.  found <= total in every reachable state.                           *)

FoundLeTotal == found <= total

\* every counted entry has matched while another goroutine has yet to count
FoundLeTotalWitness ==
    /\ found >= 1 /\ found = total
    /\ \E g \in Entries : tasks[g].pc = "start" /\ ~FiOf(g).IsDir

-----------------------------------------------------------------------------
(* C3.  After a completed run total is the number of non-directory entries *)
(* reachable from the roots, sub-directories being entered exactly when    *)
(* recursion is enabled; entries are counted whatever their size and       *)
(* extension.                                                              *)

RECURSIVE ReachableFiles(_, _)
ReachableFiles(d, k) ==
    IF k > Len(d.entries) THEN 0
    ELSE LET e == d.entries[k]
         IN  (IF e.isDir
              THEN IF flagRecursive THEN ReachableFiles(e, 1) ELSE 0
              ELSE 1)
               + ReachableFiles(d, k + 1)

RECURSIVE RootsReachable(_)
RootsReachable(i) ==
    IF i > Len(dirs) THEN 0
    ELSE ReachableFiles(RootNode(i), 1) + RootsReachable(i + 1)

TotalCountsReachable ==
    mainPc = "done" => total = RootsReachable(1)

-----------------------------------------------------------------------------
(* C4.  The scenario: a root of three files of 10, 25 and 40 bytes tagged  *)
(* A, B and A, no recursion, artist A.  As claimed: total 2, found 2, the  *)
(* two files tagged A reported.  As the code runs it: total 3 (an entry is *)
(* counted before its size is looked at), found 1, and the one path        *)
(* reported is the 40-byte file's (the 10-byte file tagged A is skipped).  *)

ScenarioRun ==
    /\ fs = ScenarioDisk
    /\ flagArtist = <<"A">> /\ flagTitle = <<>> /\ flagYear = <<>>
    /\ ~flagRecursive /\ ~flagAbs
    /\ mainPc = "done"

\* in ScenarioDisk the root's entries are Hit (40, A), Miss (25, B), Small (10, A)
ScenarioPath(k) == Join(RootDir(1), NameOf(fs.entries[1].entries[k], k))

ScenarioClaimed ==
    ScenarioRun =>
        /\ total = 2
        /\ found = 2
        /\ PathLines = {ScenarioPath(1), ScenarioPath(3)}

ScenarioActual ==
    ScenarioRun =>
        /\ total = 3
        /\ found = 1
        /\ PathLines = {ScenarioPath(1)}
        /\ NPathLines = 1

ScenarioWitness == ScenarioRun /\ exitCode = "exit0"

-----------------------------------------------------------------------------
(* C5.  Determinism: whatever the schedule, a completed run ends with the  *)
(* total, the found and the set of reported paths of the run in which one  *)
(* goroutine does all the work depth first, each path reported once.       *)

Deterministic ==
    mainPc = "done" =>
        /\ total = RootsTotal(1)
        /\ found = RootsFound(1)
        /\ PathLines = RootsPaths(1)
        /\ NPathLines = found

\* a completed run of two matches whose paths came out in reverse disk order
DeterministicWitness ==
    /\ mainPc = "done" /\ found = 2 /\ Len(stdout) = 3
    /\ \E g, h \in Entries :
         /\ tasks[g].out = "match" /\ tasks[h].out = "match"
         /\ Below(g)[Len(Below(g))] < Below(h)[Len(Below(h))]
         /\ stdout[1].path = Printed(PathOf(h))
         /\ stdout[2].path = Printed(PathOf(g))

-----------------------------------------------------------------------------
(* C6.  An entry of less than 20 bytes is never handed to match: it is     *)
(* never opened, holds no tag, never reaches the increment of found and    *)
(* its path is never reported.                                             *)

SmallNeverMatched ==
    \A g \in Entries :
        FiOf(g).Size < MinTagSize =>
            /\ tasks[g].pc \in {"start", "ret", "end"}
            /\ tasks[g].out \in {"none", "small"}
            /\ tasks[g].tag = 0
            /\ Printed(PathOf(g)) \notin PathLines

\* a 10-byte file tagged A has been skipped in a run that found another file
SmallNeverMatchedWitness ==
    /\ mainPc = "done" /\ found >= 1
    /\ \E g \in Entries :
         /\ ~FiOf(g).IsDir /\ FiOf(g).Size < MinTagSize
         /\ NodeOf(g).tag.artist = flagArtist
         /\ tasks[g].pc = "end"

-----------------------------------------------------------------------------
(* C7.  With no criterion the run ends in initOptions, before any          *)
(* scanning: no goroutine is started, nothing is listed, counted or        *)
(* printed, and the counters stay 0.                                       *)

NoCriteriaNoScan ==
    ~Criterion =>
        /\ DOMAIN tasks = {}
        /\ mainPc \in {"args", "getwd", "initOptions"}
        /\ total = 0 /\ found = 0 /\ wg = 0
        /\ NPathLines = 0 /\ NSummaries = 0

\* the run has ended with code 0 over a root that holds entries
NoCriteriaWitness ==
    /\ ~Criterion /\ exitCode = "exit0"
    /\ Len(dirs) > 0 /\ RootNode(1).isDir /\ Len(RootNode(1).entries) > 0

-----------------------------------------------------------------------------
(* C8.  A directory listing that fails ends the run at once: no search     *)
(* goes on past a failed readDir, the process has exit code 1 from the     *)
(* failure on, no step follows the exit (goroutines in flight are          *)
(* abandoned where they are), no summary line is printed, and a run that   *)
(* completes has scanned listable directories only.                        *)

ListingFailed == \E i \in 1..Len(stderr) : stderr[i].kind = "readDirFatal"

ListingFatal ==
    /\ [](/\ \A g \in Searches : tasks[g].pc # "readDir" => CanList(NodeOf(g))
          /\ ListingFailed => exitCode = "exit1" /\ NSummaries = 0
          /\ mainPc = "done" => AllListable)
    /\ [][exitCode = "running"]_vars

\* the listing of a sub-directory failed while a sibling was about to report
ListingFatalWitness ==
    /\ ListingFailed /\ exitCode = "exit1" /\ found = 1
    /\ \E g \in Entries : tasks[g].pc = "print"
    /\ \E g \in Entries : tasks[g].pc = "readDir"

-----------------------------------------------------------------------------
(* C9.  Termination under fair scheduling.  As claimed: with a root, a     *)
(* criterion and no listing failure ahead, the run completes: the pending  *)
(* count is 0, the summary line is printed once and the exit code is 0.    *)
(* As the code runs it: so it does unless os.Getwd fails under --abs,      *)
(* which ends the run with code 1 before the scan.                         *)

Startable ==
    /\ mainPc = "args" /\ exitCode = "running"
    /\ Len(dirs) > 0 /\ Criterion /\ AllListable

GetwdFailed == \E i \in 1..Len(stderr) : stderr[i].kind = "getwdFatal"

TerminationClaimed == Startable ~> Completed

Termination ==
    /\ Startable ~> (Completed \/ GetwdFailed)
    /\ [](NSummaries <= 1)
    /\ [](GetwdFailed => flagAbs /\ DOMAIN tasks = {})

\* a run over an empty root directory has completed with both counters 0
TerminationWitness ==
    /\ Completed /\ total = 0 /\ found = 0
    /\ RootNode(1).entries = <<>>
    /\ stdout = <<StdoutSummary(0, 0)>>

-----------------------------------------------------------------------------
(* C10.  Per-file failures are recoverable: a file that cannot be opened,  *)
(* whose tag cannot be parsed or holds no frame is never found nor         *)
(* reported, total keeps its count of the file, only a failed listing, a   *)
(* failed Getwd or a missing root path end a run with a code other than 0, *)
(* and once such a failure has occurred the run completes all the same     *)
(* (under fair scheduling, no listing failing).                            *)

Unreadable(n) == ~n.isDir /\ (~n.openOk \/ ~n.resetOk \/ ~n.hasFrames)

FailureSeen == \E g \in Entries : tasks[g].out \in Failures

Recoverable ==
    /\ [](/\ \A g \in Entries :
               Unreadable(NodeOf(g)) =>
                   /\ tasks[g].pc \notin {"found", "print"}
                   /\ tasks[g].out # "match"
                   /\ Printed(PathOf(g)) \notin PathLines
          /\ found + Cardinality({g \in Entries : tasks[g].out \in Failures}) <= total
          /\ exitCode \notin {"running", "exit0"} =>
               stderr[Len(stderr)].kind \in {"usage", "getwdFatal", "readDirFatal"})
    /\ (FailureSeen /\ AllListable) ~> Completed

\* a run has completed with one file failed and its sibling found
RecoverableWitness ==
    /\ Completed /\ found = 1 /\ total = 2
    /\ \E g \in Entries : tasks[g].out \in Failures

-----------------------------------------------------------------------------
(* Vocabulary of the claims about match *)

\* what match can make of the file it is called with
MatchOutcomes == {"openErr", "resetErr", "noFrames", "mismatch", "match"}

\* goroutine g called match(path) and match has returned
MatchReturned(g) ==
    tasks[g].pc \in {"ret", "end"} /\ tasks[g].out \in MatchOutcomes

\* the path of goroutine g is among the reported ones
Reported(g) == Printed(PathOf(g)) \in PathLines

Criteria == [artist |-> flagArtist, title |-> flagTitle, year |-> flagYear]
Fields == {"artist", "title", "year"}

-----------------------------------------------------------------------------
(* C11.  match counts a file as found and reports its path if and only if  *)
(* the file opens, its tag parses and has frames, and every field with a   *)
(* non-empty criterion equals the tag's value (under the case rule of the  *)
(* run); a field whose criterion is empty is not looked at.  found is the  *)
(* number of such files whose match has passed the increment.              *)

FieldHolds(tag, f) ==
    Criteria[f] = <<>> \/ areStringsEqual(tag[f], Criteria[f], flagIgnoreCase)

Eligible(n) ==
    /\ n.openOk /\ n.resetOk /\ n.hasFrames
    /\ \A f \in Fields : FieldHolds(n.tag, f)

MatchContract ==
    [](/\ \A g \in Entries :
            MatchReturned(g) =>
                /\ Reported(g) <=> Eligible(NodeOf(g))
                /\ tasks[g].out = "match" <=> Eligible(NodeOf(g))
       /\ found = Cardinality({g \in Entries :
                                 /\ Eligible(NodeOf(g))
                                 /\ tasks[g].pc \in {"print", "put"} \/ MatchReturned(g)}))

\* a file was found on its artist and title, its year (B) not being asked for
MatchContractWitness ==
    /\ mainPc = "done" /\ found = 1
    /\ flagArtist # <<>> /\ flagTitle # <<>> /\ flagYear = <<>>
    /\ \E g \in Entries :
         /\ MatchReturned(g) /\ Reported(g)
         /\ NodeOf(g).tag.year = <<"B">>

-----------------------------------------------------------------------------
(* C12.  Comparison is case-sensitive unless --ignore-case is given: a     *)
(* readable file one of whose asked-for fields differs from its criterion  *)
(* by letter case only (the other asked-for fields being equal to theirs)  *)
(* is found and reported when the flag is set, and is neither when it is   *)
(* not; a field that differs by more than case never matches.              *)

Fold(str) == [i \in 1..Len(str) |-> ToLower(str[i])]

DiffersByCaseOnly(a, b) == a # b /\ Fold(a) = Fold(b)

\* field f of the tag differs from its criterion by case only, and the
\* other fields asked for are equal to their criteria
CaseOnly(n, f) ==
    /\ n.openOk /\ n.resetOk /\ n.hasFrames
    /\ Criteria[f] # <<>> /\ DiffersByCaseOnly(n.tag[f], Criteria[f])
    /\ \A h \in Fields \ {f} : Criteria[h] = <<>> \/ n.tag[h] = Criteria[h]

CaseRule ==
    [](\A g \in Entries :
           MatchReturned(g) =>
               /\ \A f \in Fields :
                    CaseOnly(NodeOf(g), f) =>
                        /\ tasks[g].out = "match" <=> flagIgnoreCase
                        /\ Reported(g) <=> flagIgnoreCase
               /\ (\E f \in Fields :
                      /\ Criteria[f] # <<>>
                      /\ Fold(NodeOf(g).tag[f]) # Fold(Criteria[f]))
                    => tasks[g].out # "match" /\ ~Reported(g))

\* under --ignore-case a file whose artist is "a" was found for artist "A"
CaseRuleWitness ==
    /\ mainPc = "done" /\ found = 1 /\ flagIgnoreCase
    /\ flagArtist = <<"A">>
    /\ \E g \in Entries :
         /\ NodeOf(g).tag.artist = <<"a">>
         /\ MatchReturned(g) /\ Reported(g)

-----------------------------------------------------------------------------
(* C13.  Without a root path main prints the message and the usage and     *)
(* exits with code 1 in its first step, whether or not a criterion was     *)
(* given: initOptions is not reached, no goroutine is started, nothing is  *)
(* counted and no summary line is printed.                                 *)

UsagePrinted == \E i \in 1..Len(stderr) : stderr[i].kind = "usage"

NoPathsExit ==
    /\ [](Len(dirs) = 0 =>
            /\ mainPc = "args"
            /\ exitCode \in {"running", "exit1"}
            /\ exitCode = "exit1" <=> UsagePrinted
            /\ ParseFrames = <<>> /\ inExts = {}
            /\ DOMAIN tasks = {} /\ wg = 0 /\ total = 0 /\ found = 0
            /\ NSummaries = 0 /\ NPathLines = 0)
    /\ [](UsagePrinted => Len(dirs) = 0)
    /\ [][Len(dirs) = 0 =>
            /\ exitCode' = "exit1"
            /\ stdout' = <<StdoutNoPaths>>
            /\ stderr' = <<LogLine("usage", <<>>)>>]_vars

\* without a path and without a criterion the run has ended with code 1
NoPathsExitWitness ==
    /\ Len(dirs) = 0 /\ ~Criterion
    /\ exitCode = "exit1" /\ UsagePrinted

-----------------------------------------------------------------------------
(* C14.  Diagnostics.  As claimed: without --verbose no per-file error     *)
(* line is printed, and with it one is printed for every skipped entry.    *)
(* As the code runs it: without --verbose none is printed; with it one     *)
(* line, carrying the path, is printed for every file that os.Open or      *)
(* tag.Reset fails on, and none for an entry skipped by the size check,    *)
(* the directory check or the extension filter, nor for a file without     *)
(* frames or one that does not match.                                      *)

ErrorLineIdx == {i \in 1..Len(stderr) : stderr[i].kind = "error"}
ErrorLines == {stderr[i].path : i \in ErrorLineIdx}

\* goroutine g has returned without handing its entry to the comparisons
Skipped(g) ==
    /\ tasks[g].pc \in {"ret", "end"}
    /\ \/ tasks[g].out \in {"small", "ext", "openErr", "resetErr", "noFrames"}
       \/ tasks[g].out = "dir" /\ ~flagRecursive

-----------------------------------------------------------------------------
(* Vocabulary of the claims about the WaitGroup *)

\* goroutines that have not yet run their deferred wg.Done()
Live == {g \in DOMAIN tasks : tasks[g].pc # "end"}

\* the goroutine whose search started entry goroutine c
Lister(c) == <<Root(c), SubSeq(Below(c), 1, Len(Below(c)) - 1)>>

\* entry goroutine g is inside the nested search it called
InNested(g) ==
    Below(g) # <<>> /\ tasks[g].pc \in {"readDir", "add", "spawn", "sdone"}

\* every entry of the directory goroutine g listed has its goroutine
AllStarted(g) ==
    \A k \in 1..Len(NodeOf(g).entries) :
        <<Root(g), Append(Below(g), k)>> \in DOMAIN tasks

-----------------------------------------------------------------------------
(* C15.  Registration before dispatch.  An entry goroutine is started only *)
(* by a search that has executed wg.Add(len(fileInfos)), and at the start  *)
(* the counter already holds its unit besides one for every goroutine not  *)
(* yet Done; a nested search begins with its wg.Add(1) and runs while the  *)
(* entry goroutine that called it still holds its own unit; and no         *)
(* goroutine executes a Done before every goroutine its search starts has  *)
(* been started, hence registered.                                         *)

RegistrationFirst ==
    /\ [](\A c \in Entries :
            /\ Lister(c) \in DOMAIN tasks
            /\ tasks[Lister(c)].pc \in {"spawn", "sdone", "ret", "end"})
    /\ [](\A g \in Entries : InNested(g) => wg >= 2)
    /\ [][\A c \in DOMAIN tasks' \ DOMAIN tasks :
            Below(c) # <<>> =>
                /\ tasks[Lister(c)].pc = "spawn"
                /\ wg' = wg
                /\ wg >= Cardinality(Live) + 1]_vars
    /\ [][\A g \in Entries :
            tasks[g].pc # "readDir" /\ tasks'[g].pc = "readDir" => wg' = wg + 1]_vars
    /\ [][\A g \in DOMAIN tasks :
            (wg' < wg /\ tasks'[g].pc # tasks[g].pc /\ Descended(g))
                => AllStarted(g)]_vars

\* inside a nested search the goroutine of the one entry has been started:
\* the counter holds its unit, the nested search's and the caller's
RegistrationFirstWitness ==
    \E g \in Entries :
        /\ tasks[g].pc = "sdone" /\ wg = 3
        /\ <<Root(g), Append(Below(g), 1)>> \in DOMAIN tasks
        /\ tasks[<<Root(g), Append(Below(g), 1)>>].pc = "start"

-----------------------------------------------------------------------------
(* C16.  A directory entry is never counted in total and never handed to   *)
(* match: total is the number of non-directory entries whose goroutine has *)
(* passed the count.  Without --recursive only the roots are listed: every *)
(* entry goroutine is one of a root's immediate entries and calls no       *)
(* nested search, and a completed run has counted the roots' immediate     *)
(* files and nothing else.                                                 *)

\* the files among the immediate entries of the roots, from root i on
RECURSIVE RootsImmediate(_)
RootsImmediate(i) ==
    IF i > Len(dirs) THEN 0
    ELSE Cardinality({k \in 1..Len(RootNode(i).entries) :
                        ~RootNode(i).entries[k].isDir})
           + RootsImmediate(i + 1)

DirsNotCounted ==
    [](/\ \A g \in Entries :
            FiOf(g).IsDir =>
                /\ tasks[g].pc \notin {"open", "reset", "found", "print", "put"}
                /\ tasks[g].out \notin MatchOutcomes
                /\ tasks[g].tag = 0
                /\ ~Reported(g)
       /\ total = Cardinality({g \in Entries : ~FiOf(g).IsDir /\ tasks[g].pc # "start"})
       /\ ~flagRecursive =>
            /\ \A g \in Entries : Len(Below(g)) = 1 /\ ~InNested(g)
                                    /\ tasks[g].pc # "descend"
            /\ mainPc = "done" => total = RootsImmediate(1))

\* a run without --recursive has completed over a root whose sub-directory
\* holds a file
DirsNotCountedWitness ==
    /\ ~flagRecursive /\ mainPc = "done" /\ total = 0
    /\ \E g \in Entries :
         /\ FiOf(g).IsDir /\ FiOf(g).Size >= MinTagSize
         /\ Len(NodeOf(g).entries) > 0
         /\ tasks[g].pc = "end"

-----------------------------------------------------------------------------
(* C17.  Tag pool.  A goroutine holds a tag exactly from tagPool.Get to    *)
(* the deferred tagPool.Put, which runs on every return of match after the *)
(* Get (match, mismatch, no frame, Reset error) and puts back the tag it   *)
(* held, once; no two goroutines hold the same tag and a held tag is not   *)
(* idle in the pool; past the join barrier no tag is held.  Get never      *)
(* blocks: from an empty pool it yields a tag made by New.                 *)

Holders == {g \in DOMAIN tasks : tasks[g].tag # 0}
Held == {tasks[g].tag : g \in Holders}

PoolDiscipline ==
    /\ [](\A g \in DOMAIN tasks :
            tasks[g].tag # 0 <=> tasks[g].pc \in {"reset", "found", "print", "put"})
    /\ [](\A g, h \in Holders : g # h => tasks[g].tag # tasks[h].tag)
    /\ [](Held \cap tagPool = {} /\ Held \cup tagPool \subseteq 1..tagsMade)
    /\ [](PastBarrier => Held = {})
    /\ [](\A g \in DOMAIN tasks : At(g, "open") => ENABLED MatchOpen(g))
    /\ [][\A g \in DOMAIN tasks :
            /\ (tasks[g].tag = 0 /\ tasks'[g].tag # 0 /\ tagPool = {})
                 => tasks'[g].tag = tagsMade + 1 /\ tagsMade' = tagsMade + 1
            /\ (tasks[g].tag # 0 /\ tasks'[g].tag # tasks[g].tag)
                 => /\ tasks'[g].tag = 0 /\ tasks'[g].pc = "ret"
                    /\ tasks[g].tag \notin tagPool
                    /\ tagPool' = tagPool \cup {tasks[g].tag}]_vars

\* a completed run in which the one tag made served a file that matched and
\* a file whose tag did not parse, and is back in the pool
PoolDisciplineWitness ==
    /\ mainPc = "done" /\ tagsMade = 1 /\ tagPool = {1}
    /\ \E g, h \in Entries :
         tasks[g].out = "resetErr" /\ tasks[h].out = "match"

-----------------------------------------------------------------------------
(* C18.  A goroutine whose file matches increments found and then prints   *)
(* the path, once: the number of path lines never exceeds found, falls     *)
(* short of it by the goroutines between the increment and the print, and  *)
(* equals it past the join barrier; the path of a goroutine is on one line *)
(* once its match has printed and on none before or otherwise.             *)

\* the lines that carry the path goroutine g prints
LinesOf(g) ==
    {i \in 1..Len(stdout) :
        stdout[i].kind = "path" /\ stdout[i].path = Printed(PathOf(g))}

ReportAfterCount ==
    [](/\ NPathLines <= found
       /\ found - NPathLines = Cardinality({g \in Entries : tasks[g].pc = "print"})
       /\ PastBarrier => NPathLines = found
       /\ \A g \in Entries :
            Cardinality(LinesOf(g))
              = IF tasks[g].out = "match" /\ tasks[g].pc \in {"put", "ret", "end"}
                THEN 1 ELSE 0)

\* found counts two files, of which one is reported and one is about to be
ReportAfterCountWitness ==
    /\ found = 2 /\ NPathLines = 1
    /\ \E g \in Entries : tasks[g].pc = "print"

-----------------------------------------------------------------------------
(* C19.  The size check comes before the directory check: the goroutine of *)
(* a sub-directory whose reported size is below 20 bytes returns without   *)
(* calling the nested search, with or without --recursive, so that no      *)
(* goroutine exists for anything beneath it, and a completed run has       *)
(* counted the files reached through directories of 20 bytes or more only. *)

\* goroutine h works on something beneath the entry of goroutine g
Beneath(h, g) ==
    /\ Root(h) = Root(g)
    /\ Len(Below(h)) > Len(Below(g))
    /\ SubSeq(Below(h), 1, Len(Below(g))) = Below(g)

\* the files under d, from entry k on, not counting what lies beneath a
\* sub-directory of less than 20 bytes (or beneath any, without --recursive)
RECURSIVE LargeDirFiles(_, _)
LargeDirFiles(d, k) ==
    IF k > Len(d.entries) THEN 0
    ELSE LET e == d.entries[k]
         IN  (IF ~e.isDir THEN 1
              ELSE IF flagRecursive /\ e.size >= MinTagSize
                   THEN LargeDirFiles(e, 1) ELSE 0)
               + LargeDirFiles(d, k + 1)

RECURSIVE RootsLargeDirFiles(_)
RootsLargeDirFiles(i) ==
    IF i > Len(dirs) THEN 0
    ELSE LargeDirFiles(RootNode(i), 1) + RootsLargeDirFiles(i + 1)

-----------------------------------------------------------------------------
(* C20.  Balance of the WaitGroup.  The counter is the number of units     *)
(* added and not yet Done: one for each goroutine started and not Done,    *)
(* one for each nested search under way, one for each entry registered by  *)
(* wg.Add(len(fileInfos)) whose goroutine is yet to be started, one for    *)
(* the root main has added and is about to start.  Each Done takes one     *)
(* unit, of the goroutine that executes it; an Add other than main's is    *)
(* executed by a goroutine that holds a unit; the counter never falls      *)
(* below zero (no panic), is at least 1 while a registered goroutine is    *)
(* running or yet to be started, and is 0 once wg.Wait has returned.       *)

\* entries goroutine g has registered and not yet started
Unstarted(g) ==
    IF tasks[g].pc = "spawn"
    THEN Len(NodeOf(g).entries) - tasks[g].next + 1
    ELSE 0

\* the units of the counter that goroutine g accounts for
Units(g) ==
    (IF tasks[g].pc # "end" THEN 1 ELSE 0)
      + (IF InNested(g) THEN 1 ELSE 0)
      + Unstarted(g)

RECURSIVE SumUnits(_)
SumUnits(S) ==
    IF S = {} THEN 0
    ELSE LET g == CHOOSE x \in S : TRUE
         IN  Units(g) + SumUnits(S \ {g})

\* the root main has executed wg.Add(1) for and not yet `go search`
RootPending == IF mainPc = "go" THEN 1 ELSE 0

Balanced ==
    /\ [](wg = SumUnits(DOMAIN tasks) + RootPending)
    /\ [](wg >= 0 /\ exitCode # "exit2")
    /\ []((Live # {} \/ RootPending = 1) => wg >= 1)
    /\ [](PastBarrier => wg = 0 /\ Live = {})
    /\ [][wg' > wg =>
            \/ mainPc = "add" /\ mainPc' = "go" /\ wg' = wg + 1
            \/ \E g \in Live :
                 /\ tasks[g].pc \in {"add", "descend"}
                 /\ tasks'[g].pc # tasks[g].pc
                 /\ wg >= 1]_vars
    /\ [][wg' < wg =>
            /\ wg' = wg - 1
            /\ \E g \in Live :
                 /\ tasks[g].pc \in {"sdone", "ret"}
                 /\ tasks'[g].pc # tasks[g].pc]_vars

\* a run has completed after a nested search of a directory of one entry:
\* units of the three kinds were added and all were Done
BalancedWitness ==
    /\ Completed /\ Len(dirs) = 1
    /\ \E g \in Entries :
         /\ Descended(g) /\ AllStarted(g)
         /\ Len(NodeOf(g).entries) = 1

====
